---- MODULE Spec2Model ----
(***************************************************************************)
(* A model of bevy_silk's Cloth component (src/cloth.rs) and of            *)
(* ClothBuilder::anchored_vertex_ids (src/components/cloth_builder.rs).    *)
(*                                                                         *)
(* Arithmetic.  The cloth is modelled along one axis: a Vec3 is its        *)
(* coordinate on that axis, an exact rational <<n, d>> (d > 0, lowest      *)
(* terms), so that + - * / and the halvings of update_sticks are exact.    *)
(* A Mat4 is an affine map of that axis, x |-> s * x + t.                  *)
(***************************************************************************)
EXTENDS Integers, Sequences, FiniteSets, TLC

(* ------------------------------------------------------------------ *)
(* Bounds of the model                                                 *)
(* ------------------------------------------------------------------ *)

\* update calls on one binding of the cloth
MaxTicks == 2

\* iterations of the inner loop of update_sticks on one binding of the cloth
MaxSteps == 12

\* Option: None, and Some(v) with its value in .val
None == [some |-> FALSE]
Some(v) == [some |-> TRUE, val |-> v]

(* ------------------------------------------------------------------ *)
(* f32 arithmetic, modelled by exact rationals                         *)
(* ------------------------------------------------------------------ *)

IAbs(i) == IF i < 0 THEN -i ELSE i

RECURSIVE GCD(_, _)
GCD(a, b) == IF b = 0 THEN a ELSE GCD(b, a % b)

\* the rational n / d in lowest terms with a positive denominator
Q(n, d) ==
    LET g == GCD(IAbs(n), IAbs(d))
        s == IF d < 0 THEN -1 ELSE 1
    IN  <<(s * n) \div g, (s * d) \div g>>

Zero == <<0, 1>>
Two == <<2, 1>>

\* x + y and x - y, over the least common denominator
QAdd(x, y) ==
    LET g == GCD(x[2], y[2])
    IN  Q(x[1] * (y[2] \div g) + y[1] * (x[2] \div g), (x[2] \div g) * y[2])
QSub(x, y) == QAdd(x, <<-y[1], y[2]>>)
\* x * y, cancelling before multiplying
QMul(x, y) ==
    LET g == GCD(IAbs(x[1]), y[2])
        h == GCD(IAbs(y[1]), x[2])
    IN  Q((x[1] \div g) * (y[1] \div h), (x[2] \div h) * (y[2] \div g))
\* x / y, y # 0
QDiv(x, y) == QMul(x, IF y[1] < 0 THEN <<-y[2], -y[1]>> ELSE <<y[2], y[1]>>)
QAbs(x) == <<IAbs(x[1]), x[2]>>
QLt(x, y) == x[1] * y[2] < y[1] * x[2]

\* Vec3::distance
distance(p, q) == QAbs(QSub(p, q))

\* Vec3::try_normalize: None for a vector of length zero, else the unit vector
try_normalize(v) ==
    IF v[1] = 0 THEN None
    ELSE IF v[1] < 0 THEN Some(<<-1, 1>>) ELSE Some(<<1, 1>>)

\* Mat4::transform_point3
transform_point3(m, p) == QAdd(QMul(m.s, p), m.t)

\* Mat4::inverse, of an invertible matrix (s # 0)
inverse(m) == [s |-> QDiv(<<1, 1>>, m.s), t |-> QDiv(QSub(Zero, m.t), m.s)]

(* ------------------------------------------------------------------ *)
(* Inputs                                                              *)
(* ------------------------------------------------------------------ *)

\* the integer i as an f32
V(i) == <<i, 1>>

\* owner transforms: the identity, and a reflection with scaling and translation
Identity == [s |-> V(1), t |-> V(0)]
Mats == {Identity, [s |-> V(-2), t |-> V(1)]}

\* vertex positions of a mesh (ATTRIBUTE_POSITION), in the owner's local space
Strip3 == <<V(0), V(1), V(3)>>
Strip4 == <<V(1), V(1), V(0), V(4)>>

Mesh(positions, indices) == [positions |-> positions, indices |-> indices]

\* positions = None: the mesh has no ATTRIBUTE_POSITION (one that is not
\* Float32x3 panics alike); indices = None: Mesh::indices() is None
Meshes ==
    { Mesh(Some(Strip3), Some(<<0, 1, 2>>)),            \* one triangle
      Mesh(Some(Strip3), Some(<<0, 1, 1, 2>>)),         \* a doubled vertex, an incomplete triple
      Mesh(Some(Strip4), Some(<<0, 1, 2, 1, 2, 3>>)),   \* two triangles sharing edge 1-2
      Mesh(Some(Strip3), None),                         \* no indices
      Mesh(Some(Strip3), Some(<<0, 1, 2, 1, 2, 3>>)),   \* index 3 of 3 vertices
      Mesh(None, Some(<<0, 1, 2>>)) }                   \* no positions

\* the vertex ids handed to Cloth::new
FixedSets == {{}, {0}, {0, 1}}

\* ClothConfig: gravity, the value of friction_coefficient(), and
\* sticks_computation_depth
Configs ==
    [gravity : {V(0), V(-1)}, friction : {V(0), V(1)},
     sticks_computation_depth : {0, 1, 2}]

DeltaTimes == {V(0), V(1)}

(* ------------------------------------------------------------------ *)
(* State                                                               *)
(* ------------------------------------------------------------------ *)

VARIABLES
    fixed_points,               \* Cloth::fixed_points
    current_point_positions,    \* Cloth::current_point_positions
    previous_point_positions,   \* Cloth::previous_point_positions
    sticks,                     \* Cloth::sticks
    pc,                         \* "idle", "update_sticks" (inside update) or "panicked"
    config,                     \* the ClothConfig handed to update
    frame,                      \* the arguments and locals of the running update
    last,                       \* the last call and its arguments
    bound,                      \* the mesh and matrix of the last init_from_mesh that assigned
    ticks,                      \* update calls since then
    steps,                      \* iterations of update_sticks' inner loop since then
    builder,                    \* a ClothBuilder
    res                         \* result of the last ClothBuilder::anchored_vertex_ids

cloth_vars ==
    <<fixed_points, current_point_positions, previous_point_positions, sticks,
      pc, config, frame, last, bound, ticks, steps>>

builder_vars == <<builder, res>>

vars == <<cloth_vars, builder_vars>>

(* ------------------------------------------------------------------ *)
(* Cloth::init_from_mesh                                               *)
(* ------------------------------------------------------------------ *)

\* lines 80-88: every vertex position transformed by transform_matrix
MeshPositions(mesh, transform_matrix) ==
    [i \in DOMAIN mesh.positions.val |->
        transform_point3(transform_matrix, mesh.positions.val[i])]

\* a triangle whose closing stick (c, a) is left out
TriangleSticksOpen(a, b, c, positions) ==
    << [point_a_index |-> a, point_b_index |-> b,
        length |-> distance(positions[a + 1], positions[b + 1])],
       [point_a_index |-> b, point_b_index |-> c,
        length |-> distance(positions[b + 1], positions[c + 1])] >>

\* lines 102-120: the three sticks of the triangle (a, b, c)
TriangleSticks(a, b, c, positions) ==
    << [point_a_index |-> a, point_b_index |-> b,
        length |-> distance(positions[a + 1], positions[b + 1])],
       [point_a_index |-> b, point_b_index |-> c,
        length |-> distance(positions[b + 1], positions[c + 1])],
       [point_a_index |-> c, point_b_index |-> a,
        length |-> distance(positions[c + 1], positions[a + 1])] >>

\* lines 99-122: chunks_exact(3) then flat_map; an incomplete last chunk is dropped
RECURSIVE MeshSticks(_, _)
MeshSticks(indices, positions) ==
    IF Len(indices) < 3 THEN << >>
    ELSE TriangleSticks(indices[1], indices[2], indices[3], positions)
            \o MeshSticks(SubSeq(indices, 4, Len(indices)), positions)

\* line 103: positions[a] panics for an index out of bounds
IndexOutOfBounds(indices, positions) ==
    \E k \in 1..(3 * (Len(indices) \div 3)) : indices[k] >= Len(positions)

\* lines 77-79 (expect) and 103: the calls that panic
InitPanics(mesh) ==
    \/ mesh.positions = None
    \/ /\ mesh.indices # None
       /\ IndexOutOfBounds(mesh.indices.val, mesh.positions.val)

\* a return that empties the cloth
InitWithoutIndicesClears(cloth) ==
    [sticks |-> << >>, previous_point_positions |-> << >>,
     current_point_positions |-> << >>]

\* lines 89-93: no indices, log::error! and return; the cloth is what it was
InitWithoutIndices(cloth) == cloth

\* previous_point_positions left empty
InitPreviousEmpty(positions) == << >>

\* line 124
InitPrevious(positions) == positions

\* lines 76-126, a call that does not panic: the fields of the cloth afterwards
init_from_mesh(cloth, mesh, transform_matrix) ==
    LET positions == MeshPositions(mesh, transform_matrix)
    IN  IF mesh.indices = None THEN InitWithoutIndices(cloth)
        ELSE [sticks |-> MeshSticks(mesh.indices.val, positions),
              previous_point_positions |-> InitPrevious(positions),
              current_point_positions |-> positions]

Self ==
    [sticks |-> sticks,
     previous_point_positions |-> previous_point_positions,
     current_point_positions |-> current_point_positions]

NoFrame == [running |-> FALSE]
NoBound == [bound |-> FALSE]

InitFromMesh(mesh, transform_matrix) ==
    /\ pc = "idle"
    /\ IF InitPanics(mesh)
       THEN /\ pc' = "panicked"
            /\ UNCHANGED <<current_point_positions, previous_point_positions,
                           sticks, last, bound, ticks, steps>>
       ELSE \E new \in {init_from_mesh(Self, mesh, transform_matrix)} :
                /\ sticks' = new.sticks
                /\ previous_point_positions' = new.previous_point_positions
                /\ current_point_positions' = new.current_point_positions
                /\ last' = [op |-> "init_from_mesh", mesh |-> mesh]
                /\ IF mesh.indices = None
                   THEN UNCHANGED <<bound, ticks, steps>>
                   ELSE /\ bound' = [bound |-> TRUE, mesh |-> mesh,
                                     matrix |-> transform_matrix]
                        /\ ticks' = 0
                        /\ steps' = 0
                /\ pc' = "idle"
    /\ UNCHANGED <<fixed_points, config, frame, builder_vars>>

(* ------------------------------------------------------------------ *)
(* Cloth::apply_to_mesh                                                *)
(* ------------------------------------------------------------------ *)

\* lines 65-71: what is written for point i (0-based) at p
AppliedPosition(i, p, fixed, matrix) ==
    IF i \in fixed THEN p ELSE transform_point3(matrix, p)

\* lines 59-72: the positions inserted as the mesh's ATTRIBUTE_POSITION
apply_to_mesh(points, fixed, transform_matrix) ==
    LET matrix == inverse(transform_matrix)
    IN  [i \in DOMAIN points |-> AppliedPosition(i - 1, points[i], fixed, matrix)]

ApplyToMesh(transform_matrix) ==
    /\ pc = "idle"
    /\ last' = [op |-> "apply_to_mesh", matrix |-> transform_matrix,
                positions |-> apply_to_mesh(current_point_positions, fixed_points,
                                            transform_matrix)]
    /\ UNCHANGED <<fixed_points, current_point_positions, previous_point_positions,
                   sticks, pc, config, frame, bound, ticks, steps, builder_vars>>

(* ------------------------------------------------------------------ *)
(* Cloth::update: update_points, then update_sticks                    *)
(* ------------------------------------------------------------------ *)

\* line 134
Gravity(cfg, delta_time) == QMul(QMul(cfg.gravity, delta_time), delta_time)

\* the velocity term not scaled by delta_time
IntegrateUnscaled(point, previous, friction, delta_time, gravity) ==
    LET velocity == QSub(point, previous)
    IN  QAdd(point, QAdd(QMul(velocity, friction), gravity))

\* lines 139 and 141: the new current position of a free point
Integrate(point, previous, friction, delta_time, gravity) ==
    LET velocity == QSub(point, previous)
    IN  QAdd(point, QAdd(QMul(QMul(velocity, friction), delta_time), gravity))

\* every point taken for free
IsFreeAlways(i, fixed) == TRUE

\* line 138
IsFree(i, fixed) == i \notin fixed

\* lines 133-144: <<current_point_positions, previous_point_positions>> afterwards
update_points(current, previous, fixed, delta_time, cfg) ==
    LET gravity == Gravity(cfg, delta_time)
        friction == cfg.friction
    IN  << [i \in DOMAIN current |->
              IF IsFree(i - 1, fixed)
              THEN Integrate(current[i], previous[i], friction, delta_time, gravity)
              ELSE current[i]],
           [i \in DOMAIN current |->
              IF IsFree(i - 1, fixed) THEN current[i] ELSE previous[i]] >>

\* lines 9-25, get_point!: None (the caller continues) or <<position, fixed>>
get_point(id, points, fixed, matrix) ==
    IF id + 1 \notin DOMAIN points THEN None
    ELSE IF id \in fixed
         THEN Some(<<transform_point3(matrix, points[id + 1]), TRUE>>)
         ELSE Some(<<points[id + 1], FALSE>>)

\* the whole length, whatever the ends
TargetLenWhole(stick, fixed_a, fixed_b) == stick.length

\* lines 161-165
TargetLen(stick, fixed_a, fixed_b) ==
    IF fixed_a = fixed_b THEN QDiv(stick.length, Two) ELSE stick.length

\* line 166
Center(position_a, position_b) == QDiv(QAdd(position_b, position_a), Two)

\* lines 167-173: None (the caller continues) or dir * target_len
Direction(position_a, position_b, target_len) ==
    LET dir == try_normalize(QSub(position_b, position_a))
    IN  IF dir = None THEN None ELSE Some(QMul(dir.val, target_len))

\* endpoint A moved against the direction
NewPositionATowardsA(center, direction) == QSub(center, direction.val)

\* line 175
NewPositionA(center, direction) == QAdd(center, direction.val)

\* line 178
NewPositionB(center, direction) == QSub(center, direction.val)

\* lines 149-179: one iteration of the inner loop, on `stick`:
\* <<the points afterwards, the iteration's locals>>
stick_step(points, stick, fixed, matrix) ==
    LET pa == get_point(stick.point_a_index, points, fixed, matrix)
        pb == get_point(stick.point_b_index, points, fixed, matrix)
        a == pa.val
        b == pb.val
    IN  IF pa = None \/ pb = None
        THEN <<points, [outcome |-> "no_point"]>>
        ELSE
          LET target_len == TargetLen(stick, a[2], b[2])
              center == Center(a[1], b[1])
              direction == Direction(a[1], b[1], target_len)
              ia == stick.point_a_index + 1
              ib == stick.point_b_index + 1
              wa == IF ~a[2]
                    THEN [points EXCEPT ![ia] = NewPositionA(center, direction)]
                    ELSE points
              wb == IF ~b[2]
                    THEN [wa EXCEPT ![ib] = NewPositionB(center, direction)]
                    ELSE wa
          IN  IF direction = None
              THEN <<points, [outcome |-> "too_close", stick |-> stick,
                               position_a |-> a[1], fixed_a |-> a[2],
                               position_b |-> b[1], fixed_b |-> b[2]]>>
              ELSE <<wb, [outcome |-> "moved", stick |-> stick,
                          position_a |-> a[1], fixed_a |-> a[2],
                          position_b |-> b[1], fixed_b |-> b[2]]>>

\* line 129, and the entry of update_sticks
Update(delta_time, transform_matrix) ==
    /\ pc = "idle"
    /\ ticks < MaxTicks
    /\ steps + config.sticks_computation_depth * Len(sticks) <= MaxSteps
    /\ \E new \in {update_points(current_point_positions, previous_point_positions,
                                   fixed_points, delta_time, config)} :
           /\ current_point_positions' = new[1]
           /\ previous_point_positions' = new[2]
    /\ pc' = "update_sticks"
    /\ frame' = [delta_time |-> delta_time, matrix |-> transform_matrix,
                 depth |-> 0, stick |-> 1, step |-> [outcome |-> "none"]]
    /\ last' = [op |-> "update"]
    /\ ticks' = ticks + 1
    /\ UNCHANGED <<fixed_points, sticks, config, bound, steps, builder_vars>>

\* lines 147-148: the loops have an iteration left
InLoop ==
    /\ frame.depth < config.sticks_computation_depth
    /\ frame.stick <= Len(sticks)

\* one iteration of the loops of update_sticks
StickStep ==
    /\ pc = "update_sticks"
    /\ InLoop
    /\ \E step \in {stick_step(current_point_positions, sticks[frame.stick],
                                 fixed_points, frame.matrix)},
          wrap \in {frame.stick = Len(sticks)} :
           /\ current_point_positions' = step[1]
           /\ frame' = [frame EXCEPT
                          !.step = step[2],
                          !.stick = IF wrap THEN 1 ELSE frame.stick + 1,
                          !.depth = IF wrap THEN frame.depth + 1 ELSE frame.depth]
    /\ steps' = steps + 1
    /\ UNCHANGED <<fixed_points, previous_point_positions, sticks, pc, config, last,
                   bound, ticks, builder_vars>>

\* update_sticks and update return
UpdateReturn ==
    /\ pc = "update_sticks"
    /\ ~InLoop
    /\ pc' = "idle"
    /\ frame' = NoFrame
    /\ UNCHANGED <<fixed_points, current_point_positions, previous_point_positions,
                   sticks, config, last, bound, ticks, steps, builder_vars>>

(* ------------------------------------------------------------------ *)
(* ClothBuilder                                                        *)
(* ------------------------------------------------------------------ *)

\* entries of anchored_vertex_colors, and of anchored_position_conditions
MaxEntries == 2

\* VertexAnchor values: the default (pinned) anchor and a custom one
Anchors == {"pinned", "custom"}

Colors == {"red", "green"}

\* position conditions fn(Vec3) -> bool: |pos| pos.x > 0.0, |pos| pos.x < 2.0
Conditions == {"gt0", "lt2"}

Holds(condition, pos) ==
    IF condition = "gt0" THEN QLt(Zero, pos) ELSE QLt(pos, Two)

VertexIds == {0, 1}

\* meshes of two vertices; an attribute is None when the mesh does not have
\* it in a supported format
BuilderMeshes ==
    [colors : {None, Some(<<"red", "green">>), Some(<<"green", "green">>)},
     positions : {None, Some(<<V(0), V(3)>>), Some(<<V(1), V(1)>>)}]

EmptyMap == << >>

\* HashMap::insert
Insert(map, k, v) ==
    [x \in DOMAIN map \cup {k} |-> IF x = k THEN v ELSE map[x]]

\* an extend that keeps the value of a key already present
RECURSIVE ExtendKeepingFirst(_, _)
ExtendKeepingFirst(map, pairs) ==
    IF pairs = << >> THEN map
    ELSE ExtendKeepingFirst(
            IF pairs[1][1] \in DOMAIN map THEN map
            ELSE Insert(map, pairs[1][1], pairs[1][2]),
            Tail(pairs))

\* HashMap::extend with the pairs of an iterator, in its order
RECURSIVE Extend(_, _)
Extend(map, pairs) ==
    IF pairs = << >> THEN map
    ELSE Extend(Insert(map, pairs[1][1], pairs[1][2]), Tail(pairs))

\* lines 343-346: the anchor of the first entry of anchored_vertex_colors
\* with this color, or None
RECURSIVE FindColor(_, _)
FindColor(entries, color) ==
    IF entries = << >> THEN None
    ELSE IF entries[1][1] = color THEN Some(entries[1][2])
    ELSE FindColor(Tail(entries), color)

\* lines 342-347: the pairs of the vertices from index i (0-based) on
RECURSIVE ColorPairs(_, _, _)
ColorPairs(entries, colors, i) ==
    IF i >= Len(colors) THEN << >>
    ELSE LET anchor == FindColor(entries, colors[i + 1])
         IN  (IF anchor = None THEN << >> ELSE << <<i, anchor.val>> >>)
                \o ColorPairs(entries, colors, i + 1)

\* lines 370-372: the pairs of vertex i, one for each condition that holds
RECURSIVE ConditionPairs(_, _, _)
ConditionPairs(entries, i, pos) ==
    IF entries = << >> THEN << >>
    ELSE (IF Holds(entries[1][1], pos) THEN << <<i, entries[1][2]>> >> ELSE << >>)
            \o ConditionPairs(Tail(entries), i, pos)

\* lines 369-373: the pairs of the vertices from index i (0-based) on
RECURSIVE PositionPairs(_, _, _)
PositionPairs(entries, positions, i) ==
    IF i >= Len(positions) THEN << >>
    ELSE ConditionPairs(entries, i, positions[i + 1])
            \o PositionPairs(entries, positions, i + 1)

\* lines 320-384
anchored_vertex_ids(b, mesh) ==
    LET res0 == b.anchored_vertex_ids
        res1 == IF b.anchored_vertex_colors # << >> /\ mesh.colors # None
                THEN Extend(res0, ColorPairs(b.anchored_vertex_colors,
                                             mesh.colors.val, 0))
                ELSE res0
        res2 == IF b.anchored_position_conditions # << >> /\ mesh.positions # None
                THEN Extend(res1, PositionPairs(b.anchored_position_conditions,
                                                mesh.positions.val, 0))
                ELSE res1
    IN  res2

NoRes == [called |-> FALSE]

\* lines 122-129
WithAnchoredVertexId(vertex_id, vertex_anchor) ==
    /\ res = NoRes
    /\ builder' = [builder EXCEPT !.anchored_vertex_ids =
                      Insert(@, vertex_id, vertex_anchor)]
    /\ UNCHANGED <<res, cloth_vars>>

\* lines 182-190
WithAnchoredVertexColor(vertex_color, vertex_anchor) ==
    /\ res = NoRes
    /\ Len(builder.anchored_vertex_colors) < MaxEntries
    /\ builder' = [builder EXCEPT !.anchored_vertex_colors =
                      Append(@, <<vertex_color, vertex_anchor>>)]
    /\ UNCHANGED <<res, cloth_vars>>

\* lines 229-237
WithAnchoredVertexPositions(condition, vertex_anchor) ==
    /\ res = NoRes
    /\ Len(builder.anchored_position_conditions) < MaxEntries
    /\ builder' = [builder EXCEPT !.anchored_position_conditions =
                      Append(@, <<condition, vertex_anchor>>)]
    /\ UNCHANGED <<res, cloth_vars>>

\* the built ClothBuilder is asked for its anchors
AnchoredVertexIds(mesh) ==
    /\ res = NoRes
    /\ res' = [called |-> TRUE, mesh |-> mesh,
               ids |-> anchored_vertex_ids(builder, mesh)]
    /\ UNCHANGED <<builder, cloth_vars>>

(* ------------------------------------------------------------------ *)
(* Specifications                                                      *)
(* ------------------------------------------------------------------ *)

\* ClothBuilder::new
NewBuilder ==
    [anchored_vertex_ids |-> EmptyMap,
     anchored_vertex_colors |-> << >>,
     anchored_position_conditions |-> << >>]

\* Cloth::new(fixed_points), lines 43-50
Init ==
    /\ fixed_points \in FixedSets
    /\ current_point_positions = << >>
    /\ previous_point_positions = << >>
    /\ sticks = << >>
    /\ pc = "idle"
    /\ config \in Configs
    /\ frame = NoFrame
    /\ last = [op |-> "new"]
    /\ bound = NoBound
    /\ ticks = 0
    /\ steps = 0
    /\ builder = NewBuilder
    /\ res = NoRes

Next ==
    \/ \E mesh \in Meshes, m \in Mats : InitFromMesh(mesh, m)
    \/ \E dt \in DeltaTimes, m \in Mats : Update(dt, m)
    \/ StickStep
    \/ UpdateReturn
    \/ \E m \in Mats : ApplyToMesh(m)

Spec == Init /\ [][Next]_vars

\* a ClothBuilder is built, then asked for the anchors of a mesh
BuilderInit ==
    /\ Init
    /\ fixed_points = {}
    /\ config = [gravity |-> V(0), friction |-> V(0), sticks_computation_depth |-> 0]

BuilderNext ==
    \/ \E id \in VertexIds, a \in Anchors : WithAnchoredVertexId(id, a)
    \/ \E c \in Colors, a \in Anchors : WithAnchoredVertexColor(c, a)
    \/ \E c \in Conditions, a \in Anchors : WithAnchoredVertexPositions(c, a)
    \/ \E mesh \in BuilderMeshes : AnchoredVertexIds(mesh)

BuilderSpec == BuilderInit /\ [][BuilderNext]_vars

(* ------------------------------------------------------------------ *)
(* C1: the anchors of a vertex matched by several sources              *)
(* ------------------------------------------------------------------ *)

Explicit == builder.anchored_vertex_ids

\* the color source is used and entry k of anchored_vertex_colors has vertex i's color
ColorEntryMatches(k, i) ==
    /\ res.mesh.colors # None
    /\ i + 1 \in DOMAIN res.mesh.colors.val
    /\ k \in DOMAIN builder.anchored_vertex_colors
    /\ builder.anchored_vertex_colors[k][1] = res.mesh.colors.val[i + 1]

\* the position source is used and condition k holds of vertex i's position
ConditionMatches(k, i) ==
    /\ res.mesh.positions # None
    /\ i + 1 \in DOMAIN res.mesh.positions.val
    /\ k \in DOMAIN builder.anchored_position_conditions
    /\ Holds(builder.anchored_position_conditions[k][1], res.mesh.positions.val[i + 1])

ColorMatched(i) == \E k \in 1..MaxEntries : ColorEntryMatches(k, i)
ConditionMatched(i) == \E k \in 1..MaxEntries : ConditionMatches(k, i)

FirstColorAnchor(i) ==
    LET k == CHOOSE k \in 1..MaxEntries :
               /\ ColorEntryMatches(k, i)
               /\ \A j \in 1..(k - 1) : ~ColorEntryMatches(j, i)
    IN  builder.anchored_vertex_colors[k][2]

FirstConditionAnchor(i) ==
    LET k == CHOOSE k \in 1..MaxEntries :
               /\ ConditionMatches(k, i)
               /\ \A j \in 1..(k - 1) : ~ConditionMatches(j, i)
    IN  builder.anchored_position_conditions[k][2]

LastConditionAnchor(i) ==
    LET k == CHOOSE k \in 1..MaxEntries :
               /\ ConditionMatches(k, i)
               /\ \A j \in (k + 1)..MaxEntries : ~ConditionMatches(j, i)
    IN  builder.anchored_position_conditions[k][2]

\* C1 as claimed: first-match-wins, the anchor returned for a vertex is that
\* of the earliest source that matched it (explicit id, then color, then
\* position condition); a later source never replaces it.
C1_FirstMatchWins ==
    res.called =>
        \A i \in DOMAIN res.ids :
            res.ids[i] =
                IF i \in DOMAIN Explicit THEN Explicit[i]
                ELSE IF ColorMatched(i) THEN FirstColorAnchor(i)
                ELSE FirstConditionAnchor(i)

\* C1 amended: last-match-wins across the sources. The vertices returned are
\* those matched by any source, and the anchor of each is that of the latest
\* source that matched it: the last position condition that holds, else the
\* first color entry with its color, else its explicit anchor.
C1_LastMatchWins ==
    res.called =>
        /\ DOMAIN res.ids =
              DOMAIN Explicit
                \cup {i \in VertexIds : ColorMatched(i)}
                \cup {i \in VertexIds : ConditionMatched(i)}
        /\ \A i \in DOMAIN res.ids :
              res.ids[i] =
                  IF ConditionMatched(i) THEN LastConditionAnchor(i)
                  ELSE IF ColorMatched(i) THEN FirstColorAnchor(i)
                  ELSE Explicit[i]

\* a vertex matched by all three sources, whose explicit anchor was replaced
C1_Witness ==
    /\ res.called
    /\ \E i \in DOMAIN Explicit :
          /\ ColorMatched(i)
          /\ ConditionMatched(i)
          /\ FirstColorAnchor(i) # LastConditionAnchor(i)
          /\ res.ids[i] # Explicit[i]

(* ------------------------------------------------------------------ *)
(* Cloth: what the claims speak of                                     *)
(* ------------------------------------------------------------------ *)

\* init_from_mesh has just returned, having assigned the cloth from last.mesh
JustBound ==
    /\ pc = "idle"
    /\ last.op = "init_from_mesh"
    /\ last.mesh.indices # None

\* init_from_mesh has just returned on a mesh without indices
JustBoundWithoutIndices ==
    /\ pc = "idle"
    /\ last.op = "init_from_mesh"
    /\ last.mesh.indices = None

\* apply_to_mesh(mesh', T) has just returned, after init_from_mesh(mesh, T)
\* with the same T and no update in between
RoundTripped ==
    /\ pc = "idle"
    /\ last.op = "apply_to_mesh"
    /\ bound.bound
    /\ ticks = 0
    /\ last.matrix = bound.matrix

\* update_points has just run
AfterUpdatePoints ==
    /\ pc = "update_sticks"
    /\ frame.depth = 0
    /\ frame.stick = 1
    /\ frame.step.outcome = "none"

\* an iteration of update_sticks' inner loop has just run and got both points
AfterStep ==
    /\ pc = "update_sticks"
    /\ frame.step.outcome \in {"moved", "too_close"}

\* an iteration has just run on a non-degenerate stick
AfterMove ==
    /\ pc = "update_sticks"
    /\ frame.step.outcome = "moved"

\* update_sticks has run all its iterations and is about to return
EndOfTick ==
    /\ pc = "update_sticks"
    /\ ~InLoop

Current(i) == current_point_positions[i + 1]
Previous(i) == previous_point_positions[i + 1]
Points == 0..(Len(current_point_positions) - 1)

(* ------------------------------------------------------------------ *)
(* C2                                                                  *)
(* ------------------------------------------------------------------ *)

\* C2: round trip. init_from_mesh(mesh, T) then apply_to_mesh(mesh', T) with
\* no update in between writes, for every vertex, anchored or free, its
\* original local-space mesh position.
C2_RoundTrip ==
    RoundTripped => last.positions = bound.mesh.positions.val

(* ------------------------------------------------------------------ *)
(* C3                                                                  *)
(* ------------------------------------------------------------------ *)

\* C3: no step of update (update_points, or an iteration of update_sticks)
\* changes the current or the previous position of a point whose index is
\* in fixed_points.
C3_FixedPointsUntouched ==
    [][ pc' = "update_sticks" =>
            \A i \in fixed_points \cap Points :
                /\ current_point_positions'[i + 1] = Current(i)
                /\ previous_point_positions'[i + 1] = Previous(i) ]_vars

\* an iteration has just moved the free end of a stick whose other end is
\* anchored, in a tick with gravity that moved the free points
C3_Witness ==
    /\ AfterMove
    /\ frame.step.fixed_a # frame.step.fixed_b
    /\ frame.delta_time # Zero
    /\ config.gravity # Zero
    /\ frame.matrix # Identity

(* ------------------------------------------------------------------ *)
(* C4                                                                  *)
(* ------------------------------------------------------------------ *)

Indices == last.mesh.indices.val
Triangles == Len(Indices) \div 3

\* the rest length of a stick between vertices a and b of the bound mesh
RestLength(a, b) ==
    distance(transform_point3(bound.matrix, bound.mesh.positions.val[a + 1]),
             transform_point3(bound.matrix, bound.mesh.positions.val[b + 1]))

StickOf(a, b) == [point_a_index |-> a, point_b_index |-> b, length |-> RestLength(a, b)]

\* C4: init_from_mesh emits, for each complete triple (a, b, c) of the index
\* list and in list order, exactly the sticks (a, b), (b, c), (c, a), of rest
\* length the distance between the transformed positions of their ends, with
\* no deduplication: 3k sticks for k triples, and for [0,1,2, 1,2,3] six
\* sticks of which two join 1 and 2 with the same length.
C4_SticksOfTriangles ==
    JustBound =>
        /\ Len(sticks) = 3 * Triangles
        /\ \A t \in 0..(Triangles - 1) :
              LET a == Indices[3 * t + 1]
                  b == Indices[3 * t + 2]
                  c == Indices[3 * t + 3]
              IN  /\ sticks[3 * t + 1] = StickOf(a, b)
                  /\ sticks[3 * t + 2] = StickOf(b, c)
                  /\ sticks[3 * t + 3] = StickOf(c, a)
        /\ Indices = <<0, 1, 2, 1, 2, 3>> =>
              /\ Len(sticks) = 6
              /\ Cardinality({k \in 1..6 :
                    {sticks[k].point_a_index, sticks[k].point_b_index} = {1, 2}}) = 2
              /\ sticks[2].length = sticks[4].length

\* bound to the two triangles sharing edge 1-2, under a transform that scales
C4_Witness ==
    /\ JustBound
    /\ Indices = <<0, 1, 2, 1, 2, 3>>
    /\ bound.matrix # Identity
    /\ Len(sticks) = 6
    /\ sticks[2].length # Zero

(* ------------------------------------------------------------------ *)
(* C5                                                                  *)
(* ------------------------------------------------------------------ *)

\* C5 as claimed: binding a mesh with positions and no index list always
\* results in a cloth with zero sticks, also as a re-bind, which replaces
\* the earlier sticks and positions.
C5_NoIndicesZeroSticks ==
    JustBoundWithoutIndices => sticks = << >>

\* C5 amended: binding a mesh with positions and no index list leaves the
\* cloth as it was. A cloth never bound before keeps zero sticks and zero
\* points; a re-bind leaves the earlier sticks and positions in place.
C5_NoIndicesLeavesCloth ==
    /\ [](JustBoundWithoutIndices /\ ~bound.bound =>
            /\ sticks = << >>
            /\ current_point_positions = << >>
            /\ previous_point_positions = << >>)
    /\ [][ (pc = "idle" /\ pc' = "idle" /\ last'.op = "init_from_mesh"
              /\ last'.mesh.indices = None) =>
            UNCHANGED <<sticks, current_point_positions,
                        previous_point_positions>> ]_vars

\* a re-bind without indices of a cloth that has sticks and has been updated
C5_Witness ==
    /\ JustBoundWithoutIndices
    /\ bound.bound
    /\ ticks > 0
    /\ Len(sticks) > 0

(* ------------------------------------------------------------------ *)
(* C6                                                                  *)
(* ------------------------------------------------------------------ *)

\* C6: in every reachable state the two position arrays have the same
\* length, and both indices of every stick are smaller than it.
C6_LengthsAndIndices ==
    /\ Len(current_point_positions) = Len(previous_point_positions)
    /\ \A k \in DOMAIN sticks :
          /\ sticks[k].point_a_index < Len(current_point_positions)
          /\ sticks[k].point_b_index < Len(current_point_positions)

\* a cloth of four points and six sticks, updated and then applied to a mesh
C6_Witness ==
    /\ pc = "idle"
    /\ last.op = "apply_to_mesh"
    /\ ticks > 0
    /\ Len(current_point_positions) = 4
    /\ Len(sticks) = 6

(* ------------------------------------------------------------------ *)
(* C7                                                                  *)
(* ------------------------------------------------------------------ *)

\* C7: update_points with delta_time = 0 leaves the current position of
\* every free point what it was, whatever the gravity, the friction and the
\* previous positions.
C7_ZeroDeltaTime ==
    [][ (pc = "idle" /\ pc' = "update_sticks" /\ frame'.delta_time = Zero) =>
            \A i \in Points \ fixed_points :
                current_point_positions'[i + 1] = Current(i) ]_vars

\* update_points has just run with delta_time = 0, under gravity and with
\* friction_coefficient() # 0, in the second tick of a free point that the
\* first tick had moved: it had a velocity
C7_Witness ==
    /\ AfterUpdatePoints
    /\ frame.delta_time = Zero
    /\ config.gravity # Zero
    /\ config.friction # Zero
    /\ ticks = 2
    /\ \E i \in Points \ fixed_points :
          Current(i) # transform_point3(bound.matrix, bound.mesh.positions.val[i + 1])

(* ------------------------------------------------------------------ *)
(* C8                                                                  *)
(* ------------------------------------------------------------------ *)

\* every stick of the cloth joins a and b, or a point to itself
SingleStick(a, b) ==
    /\ a # b
    /\ \E k \in DOMAIN sticks :
          {sticks[k].point_a_index, sticks[k].point_b_index} = {a, b}
    /\ \A k \in DOMAIN sticks :
          \/ {sticks[k].point_a_index, sticks[k].point_b_index} = {a, b}
          \/ sticks[k].point_a_index = sticks[k].point_b_index

\* | |p_a - p_b| - rest_length | of stick k, at the given positions
Residual(points, k) ==
    QAbs(QSub(distance(points[sticks[k].point_a_index + 1],
                       points[sticks[k].point_b_index + 1]),
              sticks[k].length))

\* the cloth is one stick between two free points, bound at distinct
\* positions (with zero velocity, as init_from_mesh binds) under zero gravity
C8_Case(a, b) ==
    /\ SingleStick(a, b)
    /\ a \notin fixed_points
    /\ b \notin fixed_points
    /\ RestLength(a, b) # Zero
    /\ config.gravity = Zero

\* C8: for a single stick between two free points at distinct positions,
\* with zero gravity and zero initial velocity, every tick of iteration depth
\* >= 1 ends with |p_a - p_b| equal to the rest length: the residual is zero
\* at every depth >= 1, and so does not grow with the depth.
C8_SingleStickAtRest ==
    \A a, b \in Points :
        (EndOfTick /\ C8_Case(a, b) /\ config.sticks_computation_depth >= 1) =>
            \A k \in DOMAIN sticks :
                {sticks[k].point_a_index, sticks[k].point_b_index} = {a, b} =>
                    /\ distance(Current(a), Current(b)) = sticks[k].length
                    /\ Residual(current_point_positions, k) = Zero

\* the second tick of such a cloth, at depth 2, has run its iterations
C8_Witness ==
    /\ EndOfTick
    /\ C8_Case(0, 1)
    /\ config.sticks_computation_depth = 2
    /\ config.friction # Zero
    /\ frame.delta_time # Zero
    /\ ticks = 2
    /\ steps = 12

(* ------------------------------------------------------------------ *)
(* C9                                                                  *)
(* ------------------------------------------------------------------ *)

\* the locals of the iteration that has just run
StepA == frame.step.stick.point_a_index
StepB == frame.step.stick.point_b_index
EffectiveA == frame.step.position_a
EffectiveB == frame.step.position_b

\* normalize(effective_b - effective_a), of a non-degenerate stick
UnitDirection == IF QLt(EffectiveA, EffectiveB) THEN V(1) ELSE V(-1)

StepCenter == QDiv(QAdd(EffectiveA, EffectiveB), Two)

StepTargetLength ==
    IF frame.step.fixed_a = frame.step.fixed_b
    THEN QDiv(frame.step.stick.length, Two)
    ELSE frame.step.stick.length

\* C9 as claimed: with half = direction * target_length / 2, a free endpoint
\* A is written to center - half and a free endpoint B to center + half.
C9_HalfTowardsOwnSide ==
    AfterMove =>
        LET half == QDiv(QMul(UnitDirection, StepTargetLength), Two)
        IN  /\ ~frame.step.fixed_a => Current(StepA) = QSub(StepCenter, half)
            /\ ~frame.step.fixed_b => Current(StepB) = QAdd(StepCenter, half)

\* C9 amended: a free endpoint A is written to center + direction *
\* target_length and a free endpoint B to center - direction * target_length
\* (A lands on B's side of the midpoint and B on A's side, each at
\* target_length from it).
C9_FullTowardsOtherSide ==
    AfterMove =>
        LET full == QMul(UnitDirection, StepTargetLength)
        IN  /\ ~frame.step.fixed_a => Current(StepA) = QAdd(StepCenter, full)
            /\ ~frame.step.fixed_b => Current(StepB) = QSub(StepCenter, full)

\* an iteration has just moved both ends of a stick of non-zero length
C9_Witness ==
    /\ AfterMove
    /\ ~frame.step.fixed_a
    /\ ~frame.step.fixed_b
    /\ frame.step.stick.length # Zero
    /\ Current(StepA) # EffectiveA

(* ------------------------------------------------------------------ *)
(* C10                                                                 *)
(* ------------------------------------------------------------------ *)

\* C10: the effective position update_sticks uses for an anchored endpoint
\* is the vertex's local-space mesh position transformed once, by the
\* matrix of the current tick, whatever the matrix of init_from_mesh was.
C10_AnchorTransformedOnce ==
    AfterStep =>
        /\ frame.step.fixed_a =>
              EffectiveA = transform_point3(frame.matrix,
                                            bound.mesh.positions.val[StepA + 1])
        /\ frame.step.fixed_b =>
              EffectiveB = transform_point3(frame.matrix,
                                            bound.mesh.positions.val[StepB + 1])

(* ------------------------------------------------------------------ *)
(* C11                                                                 *)
(* ------------------------------------------------------------------ *)

\* the iteration that has just run was on a stick with one anchored end
OneAnchored == frame.step.fixed_a # frame.step.fixed_b

\* the effective position of the anchored end, and the free end's index and
\* its position before the iteration
StepAnchor == IF frame.step.fixed_a THEN EffectiveA ELSE EffectiveB
StepFree == IF frame.step.fixed_a THEN StepB ELSE StepA
StepFreeBefore == IF frame.step.fixed_a THEN EffectiveB ELSE EffectiveA

\* C11: after one relaxation step on a non-degenerate stick with exactly one
\* anchored endpoint, the free endpoint is at distance rest_length from the
\* anchored endpoint's effective position, on the same side of the anchor as
\* it was before the step.
C11_FreeEndAtRestLength ==
    (AfterMove /\ OneAnchored) =>
        /\ distance(Current(StepFree), StepAnchor) = frame.step.stick.length
        /\ QLt(StepAnchor, Current(StepFree)) = QLt(StepAnchor, StepFreeBefore)

====
